---- MODULE Spec2Model ----
(***************************************************************************)
(* A model of dotter (src/src/main.rs): the commands new, remove and       *)
(* install, the confirmation prompt user_boolean, and the part of the      *)
(* filesystem and of the environment they act on.                          *)
(*                                                                         *)
(* Strings are sequences of one-character strings, a path is the sequence  *)
(* of its components from the root, and a file holds a sequence of bytes.  *)
(* One process runs one command; Spawn starts the next process.            *)
(***************************************************************************)
EXTENDS Integers, Sequences, FiniteSets, TLC

----------------------------------------------------------------------------
(* Bounds of the model *)

\* rejected lines one prompt may read before it has to read an accepted one
MaxRetries == 2
\* processes started one after another
MaxCmds == 2
\* edits of the manifest of a package between two commands
MaxEdits == 1

----------------------------------------------------------------------------
(* Strings *)

Contains(s, c) == \E i \in 1..Len(s) : s[i] = c

EndsWith(s, suf) ==
    /\ Len(s) >= Len(suf)
    /\ SubSeq(s, Len(s) - Len(suf) + 1, Len(s)) = suf

RECURSIVE Replace(_, _, _)
Replace(s, c, r) ==
    IF s = <<>> THEN <<>>
    ELSE (IF Head(s) = c THEN r ELSE <<Head(s)>>) \o Replace(Tail(s), c, r)

IsSpace(c) == c \in {" ", "\n"}

RECURSIVE TrimStart(_)
TrimStart(s) ==
    IF s # <<>> /\ IsSpace(Head(s)) THEN TrimStart(Tail(s)) ELSE s

RECURSIVE TrimEnd(_)
TrimEnd(s) ==
    IF s # <<>> /\ IsSpace(s[Len(s)]) THEN TrimEnd(SubSeq(s, 1, Len(s) - 1)) ELSE s

\* a trim that forgets the end of the line
Trim_StartOnly(s) == TrimStart(s)

Trim(s) == TrimEnd(TrimStart(s))

LowerChar(c) == IF c = "Y" THEN "y" ELSE IF c = "N" THEN "n" ELSE IF c = "X" THEN "x" ELSE c

ToLowercase(s) == [i \in 1..Len(s) |-> LowerChar(s[i])]

----------------------------------------------------------------------------
(* Paths *)

RECURSIVE Split(_)
Split(s) ==
    IF ~Contains(s, "/") THEN <<s>>
    ELSE LET i == CHOOSE k \in 1..Len(s) :
                      s[k] = "/" /\ \A j \in 1..(k - 1) : s[j] # "/"
         IN  <<SubSeq(s, 1, i - 1)>> \o Split(SubSeq(s, i + 1, Len(s)))

\* the components the operating system walks: empty ones and "." name nothing
Components(s) == SelectSeq(Split(s), LAMBDA c : c # <<>> /\ c # <<".">>)

IsAbsolute(s) == s # <<>> /\ s[1] = "/"

\* Path::join: an absolute argument replaces the base
Join(base, s) ==
    IF IsAbsolute(s) THEN s
    ELSE IF base # <<>> /\ base[Len(base)] = "/" THEN base \o s
    ELSE base \o <<"/">> \o s

\* the working directory of every process
CurrentDir == <<"/", "w">>

Resolve(s) ==
    IF IsAbsolute(s) THEN Components(s) ELSE Components(CurrentDir) \o Components(s)

RECURSIVE JoinComponents(_)
JoinComponents(p) ==
    IF p = <<>> THEN <<>> ELSE <<"/">> \o Head(p) \o JoinComponents(Tail(p))

PathString(p) == IF p = <<>> THEN <<"/">> ELSE JoinComponents(p)

ParentPath(p) == SubSeq(p, 1, Len(p) - 1)

----------------------------------------------------------------------------
(* The filesystem: a function from the paths that exist to their nodes *)

DirNode == [type |-> "dir", data |-> <<>>]
FileNode(bytes) == [type |-> "file", data |-> bytes]

Exists(f, p) == p \in DOMAIN f
IsDir(f, p) == Exists(f, p) /\ f[p].type = "dir"
IsFile(f, p) == Exists(f, p) /\ f[p].type = "file"

Put(f, p, node) == [q \in DOMAIN f \cup {p} |-> IF q = p THEN node ELSE f[q]]

IsPrefix(p, q) == Len(p) <= Len(q) /\ SubSeq(q, 1, Len(p)) = p

Prefixes(p) == {SubSeq(p, 1, n) : n \in 0..Len(p)}

Children(f, p) == {q \in DOMAIN f : Len(q) = Len(p) + 1 /\ IsPrefix(p, q)}

\* the byte that is not valid UTF-8
BadByte == "FF"
IsUtf8(bytes) == ~Contains(bytes, BadByte)

----------------------------------------------------------------------------
(* Filesystem calls.  Each takes the filesystem and a path string and      *)
(* returns [ok, kind, fs] (and what it read); a failed call leaves fs as   *)
(* it was and names the std::io::ErrorKind in kind.                        *)

Failed(f, kind) == [ok |-> FALSE, kind |-> kind, fs |-> f]
Done(f) == [ok |-> TRUE, kind |-> "Ok", fs |-> f]

\* why a path whose last component is missing cannot be created
ParentError(f, p) ==
    IF Exists(f, ParentPath(p)) THEN "NotADirectory" ELSE "NotFound"

\* std::fs::create_dir_all
CreateDirAll(f, s) ==
    LET p == Resolve(s) IN
    IF IsFile(f, p) THEN Failed(f, "AlreadyExists")
    ELSE IF \E q \in Prefixes(p) : IsFile(f, q) THEN Failed(f, "NotADirectory")
    ELSE Done([q \in DOMAIN f \cup Prefixes(p) |->
                  IF q \in DOMAIN f THEN f[q] ELSE DirNode])

\* an open that creates the file or empties the one that is there
OpenCreateNew_Truncating(f, s) ==
    LET p == Resolve(s) IN
    IF IsDir(f, p) THEN Failed(f, "IsADirectory")
    ELSE IF ~IsDir(f, ParentPath(p)) THEN Failed(f, ParentError(f, p))
    ELSE Done(Put(f, p, FileNode(<<>>)))

\* OpenOptions::new().write(true).create_new(true).open
OpenCreateNew(f, s) ==
    LET p == Resolve(s) IN
    IF Exists(f, p) THEN Failed(f, "AlreadyExists")
    ELSE IF ~IsDir(f, ParentPath(p)) THEN Failed(f, ParentError(f, p))
    ELSE Done(Put(f, p, FileNode(<<>>)))

\* OpenOptions::new().read(true).open
OpenRead(f, s) ==
    IF Exists(f, Resolve(s)) THEN Done(f) ELSE Failed(f, "NotFound")

\* OpenOptions::new().write(true).create(true).open: no truncate(true)
OpenWriteCreate(f, s) ==
    LET p == Resolve(s) IN
    IF IsFile(f, p) THEN Done(f)
    ELSE IF IsDir(f, p) THEN Failed(f, "IsADirectory")
    ELSE IF ~IsDir(f, ParentPath(p)) THEN Failed(f, ParentError(f, p))
    ELSE Done(Put(f, p, FileNode(<<>>)))

\* Read::read_to_string on an open file: the whole file, if it is UTF-8
ReadToString(f, s) ==
    LET p == Resolve(s) IN
    IF IsDir(f, p) THEN [ok |-> FALSE, kind |-> "IsADirectory", fs |-> f, text |-> <<>>]
    ELSE IF ~IsUtf8(f[p].data)
    THEN [ok |-> FALSE, kind |-> "InvalidData", fs |-> f, text |-> <<>>]
    ELSE [ok |-> TRUE, kind |-> "Ok", fs |-> f, text |-> f[p].data]

\* Write::write_all on a file just opened for writing: the bytes go over
\* the start of the file, and what the file held beyond them stays
WriteAll(f, s, bytes) ==
    LET p == Resolve(s)
        old == f[p].data
    IN  Done(Put(f, p, FileNode(bytes \o SubSeq(old, Len(bytes) + 1, Len(old)))))

\* Path::read_dir: the entries of a directory
ReadDir(f, s) ==
    LET p == Resolve(s) IN
    IF IsDir(f, p) THEN [ok |-> TRUE, kind |-> "Ok", fs |-> f, entries |-> Children(f, p)]
    ELSE [ok |-> FALSE, kind |-> IF Exists(f, p) THEN "NotADirectory" ELSE "NotFound",
          fs |-> f, entries |-> {}]

\* std::fs::remove_dir_all
RemoveDirAll(f, s) ==
    LET p == Resolve(s) IN
    IF ~IsDir(f, p) THEN Failed(f, IF Exists(f, p) THEN "NotADirectory" ELSE "NotFound")
    ELSE Done([q \in {r \in DOMAIN f : ~IsPrefix(p, r)} |-> f[q]])

\* Path::canonicalize: the absolute path of something that exists
Canonicalize(f, s) ==
    LET p == Resolve(s) IN
    IF Exists(f, p) THEN [ok |-> TRUE, kind |-> "Ok", fs |-> f, path |-> PathString(p)]
    ELSE [ok |-> FALSE, kind |-> "NotFound", fs |-> f, path |-> <<>>]

----------------------------------------------------------------------------
(* Manifests *)

None == <<>>
Some(v) == <<v>>
UnwrapOr(opt, d) == IF opt = None THEN d ELSE opt[1]

DotToml == <<".", "t", "o", "m", "l">>

\* DEFAULT_CONFIG_CONTENTS: the text of the default manifest, one token
DEFAULT_CONFIG_CONTENTS == <<"TPL">>

SrcA == <<"a">>
SrcB == <<"b">>
TgtT == <<"t">>
TgtU == <<"u">>
TgtHomeT == <<"~", "/", "t">>
TgtHomeU == <<"~", "/", "u">>
TgtNoDir == <<"n", "/", "t">>
ConfigTxt == <<"c", "o", "n", "f", "i", "g", ".", "t", "x", "t">>
TplTarget == <<"~", "/", ".", "c", "o", "n", "f", "i", "g", "/",
               "m", "y", "_", "c", "o", "n", "f", "i", "g", "/">> \o ConfigTxt

DootConfig(name, source, target, ask, debug) ==
    [doot |-> [name |-> name],
     config |-> [target |-> target, source |-> source, ask |-> ask, debug |-> debug]]

\* the manifest texts of the model and the value each deserializes to
ManifestTable ==
    [TPL |-> DootConfig("example", <<ConfigTxt>>, <<TplTarget>>, Some(TRUE), Some(TRUE)),
     K1  |-> DootConfig("copy2", <<SrcA, SrcB>>, <<TgtT, TgtU>>, Some(FALSE), None),
     K2  |-> DootConfig("askhome", <<SrcA>>, <<TgtHomeT>>, None, Some(FALSE)),
     K3  |-> DootConfig("dry", <<SrcA, SrcB>>, <<TgtT, TgtHomeU>>, Some(FALSE), Some(TRUE)),
     K4  |-> DootConfig("mismatch", <<SrcA>>, <<TgtT, TgtU>>, None, None),
     K5  |-> DootConfig("empty", <<>>, <<>>, Some(FALSE), None),
     K6  |-> DootConfig("nodir", <<SrcA, SrcA>>, <<TgtNoDir, TgtT>>, Some(FALSE), Some(FALSE))]

\* toml::from_str::<DootConfig>: a text that is not a manifest is an error
FromStr(text) ==
    IF Len(text) = 1 /\ text[1] \in DOMAIN ManifestTable
    THEN [ok |-> TRUE, config |-> ManifestTable[text[1]]]
    ELSE [ok |-> FALSE, config |-> DootConfig("", <<>>, <<>>, None, None)]

----------------------------------------------------------------------------
(* State *)

VARIABLES
    fs,          \* the filesystem
    home,        \* the HOME variable of the running process: None or Some(string)
    pc,          \* where the running process is
    cmd,         \* the command it runs: [name, tag]
    result,      \* what the command returned
    trace,       \* what the process printed and which calls it made, in order
    pre,         \* the filesystem when the command began
    prev,        \* the command of the process before, and whether it succeeded
    doots,       \* install: the manifest files found
    idx,         \* install: position in doots
    config,      \* install_config: the manifest being installed
    parent_dir,  \* install_config: the package directory
    pair,        \* install_config: position in the source and target lists
    bias,        \* user_boolean: yes_no_bias
    ret,         \* user_boolean: who called
    answer,      \* user_boolean: the value returned
    line,        \* user_boolean: the line read last
    retries,     \* user_boolean: lines rejected in the current call
    ncmds,       \* processes started so far
    nedits       \* edits made so far

installVars == <<doots, idx, config, parent_dir, pair>>
promptVars == <<bias, ret, answer, line, retries>>
envVars == <<home, pre, prev, ncmds, nedits>>
vars == <<fs, pc, cmd, result, trace, installVars, promptVars, envVars>>

Ok == [ok |-> TRUE, kind |-> "Ok", sources |-> 0, targets |-> 0]
Err(kind) == [ok |-> FALSE, kind |-> kind, sources |-> 0, targets |-> 0]
Pending == Err("pending")

Ev(op, what, arg) == [op |-> op, what |-> what, arg |-> arg]

NoCmd == [name |-> "none", tag |-> <<>>]
NoConfig == DootConfig("", <<>>, <<>>, None, None)

----------------------------------------------------------------------------
(* Initial states: an empty working directory, or one holding package p    *)

CompW == <<"w">>
CompH == <<"h">>
CompP == <<"p">>
HomeDir == <<"/", "h">>
Homes == {None, Some(HomeDir)}

BaseFs == [q \in {<<>>, <<CompW>>, <<CompH>>} |-> DirNode]

PutOpt(f, p, opt) == IF opt = None THEN f ELSE Put(f, p, FileNode(opt[1]))

PkgPath(name) == <<CompW, CompP, name>>

PackageFs(m1, m2, b, t) ==
    PutOpt(PutOpt(PutOpt(
        Put(Put(Put(BaseFs, <<CompW, CompP>>, DirNode),
                PkgPath(CompP \o DotToml), FileNode(m1)),
            PkgPath(SrcA), FileNode(<<"x">>)),
        PkgPath(<<"z">> \o DotToml), m2), PkgPath(SrcB), b), PkgPath(TgtT), t)

FirstManifests == {<<k>> : k \in DOMAIN ManifestTable} \cup {<<"BAD">>}
SecondManifests == {None, Some(<<"K1">>), Some(<<"K2">>), Some(<<"BAD">>)}
SourceBs == {None, Some(<<"y", "x">>), Some(<<BadByte>>)}
TargetTs == {None, Some(<<"o", "o", "o">>)}

Fresh ==
    /\ pc = "start"
    /\ cmd = NoCmd
    /\ result = Pending
    /\ trace = <<>>
    /\ doots = <<>>
    /\ idx = 0
    /\ config = NoConfig
    /\ parent_dir = <<>>
    /\ pair = 0
    /\ bias = FALSE
    /\ ret = "none"
    /\ answer = FALSE
    /\ line = <<>>
    /\ retries = 0

\* nothing has happened yet
NoHistory ==
    /\ pre = fs
    /\ prev = [name |-> "none", tag |-> <<>>, ok |-> FALSE]
    /\ ncmds = 1
    /\ nedits = 0
    /\ Fresh

\* the first process starts in an empty working directory
Init ==
    /\ fs = BaseFs
    /\ home \in Homes
    /\ NoHistory

\* a process starts in a working directory that holds package p
InitInstall ==
    /\ fs \in {PackageFs(m1, m2, b, t) :
                 m1 \in FirstManifests, m2 \in SecondManifests,
                 b \in SourceBs, t \in TargetTs}
    /\ home \in Homes
    /\ NoHistory


\* the handler returns: the process ends
Exit(f, res, tr) ==
    /\ pc' = "exited"
    /\ fs' = f
    /\ result' = res
    /\ trace' = tr

----------------------------------------------------------------------------
(* new *)

RECURSIVE JoinWith(_)
JoinWith(cs) ==
    IF cs = <<>> THEN <<>>
    ELSE IF Len(cs) = 1 THEN cs[1]
    ELSE cs[1] \o <<"/">> \o JoinWith(Tail(cs))

\* Path::parent: the path without its last component, None if it has none
Parent(s) ==
    LET cs == SelectSeq(Split(s), LAMBDA c : c # <<>>) IN
    IF cs = <<>> THEN None
    ELSE Some((IF IsAbsolute(s) THEN <<"/">> ELSE <<>>)
              \o JoinWith(SubSeq(cs, 1, Len(cs) - 1)))

make_new_doot(f, file_name) ==
    LET par == Parent(file_name) IN
    IF par = None THEN [fs |-> f, result |-> Err("NoParent"), trace |-> <<>>]
    ELSE LET d == CreateDirAll(f, par[1])
             o == OpenCreateNew(d.fs, file_name)
             w == WriteAll(o.fs, file_name, DEFAULT_CONFIG_CONTENTS)
         IN  IF ~d.ok
             THEN [fs |-> f, result |-> Err(d.kind),
                   trace |-> <<Ev("create_dir_all", "err", par[1])>>]
             ELSE IF ~o.ok
             THEN [fs |-> d.fs, result |-> Err(o.kind),
                   trace |-> <<Ev("create_dir_all", "ok", par[1]),
                               Ev("open_create_new", "err", file_name)>>]
             ELSE [fs |-> w.fs, result |-> Ok,
                   trace |-> <<Ev("create_dir_all", "ok", par[1]),
                               Ev("open_create_new", "ok", file_name),
                               Ev("write_all", "ok", file_name)>>]

ManifestName(config_file) ==
    <<".", "/">> \o config_file \o <<"/">> \o config_file \o DotToml

New(config_file) ==
    /\ pc = "start"
    /\ cmd' = [name |-> "new", tag |-> config_file]
    /\ LET t0 == <<Ev("println", "NewConfigFile", config_file)>>
           r == make_new_doot(fs, ManifestName(config_file))
       IN  IF Contains(config_file, ".")
           THEN Exit(fs, Err("InvalidTag"), t0)
           ELSE Exit(r.fs, r.result, t0 \o r.trace)
    /\ UNCHANGED <<installVars, promptVars, envVars>>

----------------------------------------------------------------------------
(* user_boolean: one turn of its loop *)

\* what the user types on one line, the line terminator not counted
Typed ==
    {<<>>, <<"y">>, <<"Y">>, <<"n">>, <<"N">>, <<" ">>, <<"x">>,
     <<" ", "y">>, <<"N", " ">>, <<"y", "y">>, <<"n", "o">>, <<"y", " ", "n">>}

\* Stdin::read_line: the line with its terminator, or what was left at the
\* end of the input
ReadLine(typed, eof) == typed \o (IF eof THEN <<>> ELSE <<"\n">>)

Matched(user_line) == ToLowercase(Trim(user_line))

UserBoolean(typed, eof) ==
    /\ pc = "user_boolean"
    /\ LET user_line == ReadLine(typed, eof)
           m == Matched(user_line)
           t1 == trace \o <<Ev("print", "Question", bias), Ev("read_line", "ok", <<>>)>>
       IN  /\ line' = user_line
           /\ IF m = <<"y">>
              THEN /\ answer' = TRUE
                   /\ pc' = ret
                   /\ trace' = t1
                   /\ UNCHANGED retries
              ELSE IF m = <<"n">>
              THEN /\ answer' = FALSE
                   /\ pc' = ret
                   /\ trace' = t1
                   /\ UNCHANGED retries
              ELSE IF m = <<>>
              THEN /\ answer' = bias
                   /\ pc' = ret
                   /\ trace' = t1
                   /\ UNCHANGED retries
              ELSE /\ retries < MaxRetries
                   /\ retries' = retries + 1
                   /\ trace' = t1 \o <<Ev("println", "Hint", <<>>)>>
                   /\ UNCHANGED <<answer, pc>>
    /\ UNCHANGED <<fs, cmd, result, installVars, bias, ret, envVars>>

----------------------------------------------------------------------------
(* remove *)

LastComponent(p) == p[Len(p)]

\* remove asking with the bias of install
RemoveBias_Yes == TRUE

\* the bias remove gives the prompt: pressing Enter cancels
RemoveBias == FALSE

RemoveBegin(config_file) ==
    /\ pc = "start"
    /\ cmd' = [name |-> "remove", tag |-> config_file]
    /\ LET full_config_name == <<".", "/">> \o config_file
           rd == ReadDir(fs, full_config_name)
           t0 == <<Ev("println", "RemovingConfig", config_file)>>
       IN  IF ~rd.ok
           THEN /\ Exit(fs, Err(rd.kind), t0 \o <<Ev("read_dir", "err", full_config_name)>>)
                /\ UNCHANGED promptVars
           ELSE /\ pc' = "user_boolean"
                /\ ret' = "remove"
                /\ bias' = RemoveBias
                /\ retries' = 0
                /\ trace' = t0 \o <<Ev("read_dir", "ok", full_config_name),
                                    Ev("println", "Removing",
                                       {LastComponent(q) : q \in rd.entries})>>
                /\ UNCHANGED <<fs, result, answer, line>>
    /\ UNCHANGED <<installVars, envVars>>

RemoveEnd ==
    /\ pc = "remove"
    /\ LET full_config_name == <<".", "/">> \o cmd.tag
           rm == RemoveDirAll(fs, full_config_name)
       IN  IF ~answer
           THEN Exit(fs, Ok, trace \o <<Ev("println", "Canceled", <<>>)>>)
           ELSE Exit(rm.fs, IF rm.ok THEN Ok ELSE Err(rm.kind),
                     trace \o <<Ev("println", "Deleting", <<>>),
                                Ev("remove_dir_all", IF rm.ok THEN "ok" ELSE "err",
                                   full_config_name)>>)
    /\ UNCHANGED <<cmd, installVars, promptVars, envVars>>

----------------------------------------------------------------------------
(* install *)

\* the orders in which read_dir may yield the entries
Orderings(S) ==
    {o \in [1..Cardinality(S) -> S] : \A i, j \in 1..Cardinality(S) : o[i] = o[j] => i = j}

\* DirEntry::path: the path read_dir was given, joined with the entry's name
EntryPath(dir, q) == Join(dir, LastComponent(q))

InstallBegin(config_file) ==
    /\ pc = "start"
    /\ cmd' = [name |-> "install", tag |-> config_file]
    /\ LET rd == ReadDir(fs, config_file)
           tomls == {EntryPath(config_file, q) :
                        q \in {e \in rd.entries :
                                  ~IsDir(fs, e) /\ EndsWith(LastComponent(e), DotToml)}}
       IN  IF Contains(config_file, ".")
           THEN /\ Exit(fs, Err("InvalidTag"), <<>>)
                /\ UNCHANGED <<doots, idx>>
           ELSE IF ~rd.ok
           THEN /\ Exit(fs, Err(rd.kind), <<Ev("read_dir", "err", config_file)>>)
                /\ UNCHANGED <<doots, idx>>
           ELSE /\ doots' \in Orderings(tomls)
                /\ idx' = 1
                /\ pc' = "install"
                /\ trace' = <<Ev("read_dir", "ok", config_file),
                              Ev("println", "FoundToml", doots')>>
                /\ UNCHANGED <<fs, result>>
    /\ UNCHANGED <<config, parent_dir, pair, promptVars, envVars>>

\* a parse error passed on with `?`
SkipInvalid_Abort(doot_file, tr) ==
    /\ Exit(fs, Err("ManifestInvalid"), tr \o <<Ev("from_str", "err", doot_file)>>)
    /\ UNCHANGED idx

\* the Err arm of the match on toml::from_str: warn and go on with the
\* next manifest
SkipInvalid(doot_file, tr) ==
    /\ trace' = tr \o <<Ev("from_str", "err", doot_file),
                         Ev("println", "NotValid", doot_file)>>
    /\ idx' = idx + 1
    /\ UNCHANGED <<pc, fs, result>>

\* the ask of a manifest, with its default
Ask(cfg) == UnwrapOr(cfg.config.ask, TRUE)

\* debug read from the wrong key
Debug_FromAsk(cfg) == UnwrapOr(cfg.config.ask, FALSE)

\* the debug of a manifest, with its default
Debug(cfg) == UnwrapOr(cfg.config.debug, FALSE)

\* the bias install_config gives the prompt: pressing Enter installs
InstallBias == TRUE

\* the head of the loop over doots, up to the prompt of install_config
InstallLoop ==
    /\ pc = "install"
    /\ IF idx > Len(doots)
       THEN /\ Exit(fs, Ok, trace)
            /\ UNCHANGED <<idx, config, parent_dir, pair, promptVars>>
       ELSE LET doot_file == doots[idx]
                o == OpenRead(fs, doot_file)
                r == ReadToString(fs, doot_file)
                c == FromStr(r.text)
                t1 == trace \o <<Ev("open_read", "ok", doot_file)>>
                t2 == t1 \o <<Ev("read_to_string", "ok", doot_file)>>
            IN  IF ~o.ok
                THEN /\ Exit(fs, Err(o.kind), trace \o <<Ev("open_read", "err", doot_file)>>)
                     /\ UNCHANGED <<idx, config, parent_dir, pair, promptVars>>
                ELSE IF ~r.ok
                THEN /\ Exit(fs, Err(r.kind), t1 \o <<Ev("read_to_string", "err", doot_file)>>)
                     /\ UNCHANGED <<idx, config, parent_dir, pair, promptVars>>
                ELSE IF ~c.ok
                THEN /\ SkipInvalid(doot_file, t2)
                     /\ UNCHANGED <<config, parent_dir, pair, promptVars>>
                ELSE /\ config' = c.config
                     /\ pair' = 0
                     /\ parent_dir' = CurrentDir \o <<"/">> \o cmd.tag
                     /\ trace' = t2 \o <<Ev("from_str", "ok", doot_file),
                                         Ev("call", "install_config", doot_file),
                                         Ev("println", "Package", c.config.doot.name)>>
                     /\ IF Ask(c.config)
                        THEN /\ pc' = "user_boolean"
                             /\ ret' = "install_config"
                             /\ bias' = InstallBias
                             /\ retries' = 0
                             /\ UNCHANGED <<answer, line>>
                        ELSE /\ pc' = "install_config"
                             /\ answer' = TRUE
                             /\ UNCHANGED <<bias, ret, line, retries>>
                     /\ UNCHANGED <<fs, result, idx>>
    /\ UNCHANGED <<cmd, doots, envVars>>

\* the two counts the other way round
ErrCounts_Swapped(ns, nt) ==
    [ok |-> FALSE, kind |-> "RuleCountMismatch", sources |-> nt, targets |-> ns]

ErrCounts(ns, nt) ==
    [ok |-> FALSE, kind |-> "RuleCountMismatch", sources |-> ns, targets |-> nt]

\* an error of install_config that the loop of install does not pass on
ReturnFromInstallConfig_Swallow(f, r, tr) ==
    /\ pc' = "install"
    /\ idx' = idx + 1
    /\ fs' = f
    /\ trace' = tr \o <<Ev("return", "install_config", r)>>
    /\ UNCHANGED result

\* install_config returns r to the loop of install: the `?` of install
\* passes an error on, and the loop goes on after a success
ReturnFromInstallConfig(f, r, tr) ==
    LET t == tr \o <<Ev("return", "install_config", r)>> IN
    IF r.ok
    THEN /\ pc' = "install"
         /\ idx' = idx + 1
         /\ fs' = f
         /\ trace' = t
         /\ UNCHANGED result
    ELSE /\ Exit(f, r, t)
         /\ UNCHANGED idx

\* install_config from the answer of the prompt to the loop over the pairs
InstallConfig ==
    /\ pc = "install_config"
    /\ LET source == config.config.source
           target == config.config.target
           should_install == answer
       IN  IF ~should_install
           THEN /\ ReturnFromInstallConfig(fs, Ok, trace \o <<Ev("println", "Skipped", <<>>)>>)
                /\ UNCHANGED pair
           ELSE IF Len(source) # Len(target)
           THEN /\ ReturnFromInstallConfig(fs, ErrCounts(Len(source), Len(target)), trace)
                /\ UNCHANGED pair
           ELSE IF Len(source) = 0
           THEN /\ ReturnFromInstallConfig(fs, Err("EmptyRuleSet"), trace)
                /\ UNCHANGED pair
           ELSE IF home = None
           THEN /\ ReturnFromInstallConfig(fs, Err("HomeUnset"), trace)
                /\ UNCHANGED pair
           ELSE /\ pc' = "pairs"
                /\ pair' = 1
                /\ UNCHANGED <<fs, result, trace, idx>>
    /\ line' = <<>>
    /\ UNCHANGED <<cmd, doots, config, parent_dir, bias, ret, answer, retries, envVars>>

Min(a, b) == IF a <= b THEN a ELSE b

\* a pair is done: the next pair, or Ok after the last one
InstallPairStep(f, tr) ==
    IF pair = Min(Len(config.config.source), Len(config.config.target))
    THEN /\ ReturnFromInstallConfig(f, Ok, tr)
         /\ UNCHANGED pair
    ELSE /\ pair' = pair + 1
         /\ fs' = f
         /\ trace' = tr
         /\ UNCHANGED <<pc, result, idx>>

\* a failed pair that does not end the loop
InstallPairFail_Continue(f, kind, tr) == InstallPairStep(f, tr)

\* a `?` in the loop over the pairs: install_config returns the error
InstallPairFail(f, kind, tr) ==
    /\ ReturnFromInstallConfig(f, Err(kind), tr)
    /\ UNCHANGED pair

\* one turn of the loop over source.iter().zip(target.iter())
InstallPair ==
    /\ pc = "pairs"
    /\ LET debug == Debug(config)
           user_home == home[1]
           can == Canonicalize(fs, Join(parent_dir, config.config.source[pair]))
           source == can.path
           target == Join(parent_dir, Replace(config.config.target[pair], "~", user_home))
           o1 == OpenRead(fs, source)
           o2 == OpenWriteCreate(fs, target)
           r == ReadToString(o2.fs, source)
           w == WriteAll(o2.fs, target, r.text)
           t1 == trace \o <<Ev("canonicalize", "ok", source)>>
           t2 == t1 \o <<Ev("open_read", "ok", source)>>
           t3 == t2 \o <<Ev("open_write", "ok", target)>>
           t4 == t3 \o <<Ev("read_to_string", "ok", [path |-> source, text |-> r.text]),
                         Ev("write_all", "ok", target),
                         Ev("println", "COPY", [source |-> source, target |-> target])>>
           t5 == t1 \o <<Ev("println", "DEBUG", [source |-> source, target |-> target])>>
       IN  IF ~can.ok
           THEN InstallPairFail(fs, "SourceNotFound",
                     trace \o <<Ev("canonicalize", "err", config.config.source[pair])>>)
           ELSE IF debug
           THEN InstallPairStep(fs, t5)
           ELSE IF ~o1.ok
           THEN InstallPairFail(fs, o1.kind, t1 \o <<Ev("open_read", "err", source)>>)
           ELSE IF ~o2.ok
           THEN InstallPairFail(fs, o2.kind, t2 \o <<Ev("open_write", "err", target)>>)
           ELSE IF ~r.ok
           THEN InstallPairFail(o2.fs, r.kind, t3 \o <<Ev("read_to_string", "err", source)>>)
           ELSE InstallPairStep(w.fs, t4)
    /\ UNCHANGED <<cmd, doots, config, parent_dir, promptVars, envVars>>

----------------------------------------------------------------------------
(* The environment: the next process, and an edit of a manifest *)

Spawn(h) ==
    /\ pc = "exited"
    /\ ncmds < MaxCmds
    /\ ncmds' = ncmds + 1
    /\ home' = h
    /\ pre' = fs
    /\ prev' = [name |-> cmd.name, tag |-> cmd.tag, ok |-> result.ok]
    /\ pc' = "start"
    /\ cmd' = NoCmd
    /\ result' = Pending
    /\ trace' = <<>>
    /\ doots' = <<>>
    /\ idx' = 0
    /\ config' = NoConfig
    /\ parent_dir' = <<>>
    /\ pair' = 0
    /\ bias' = FALSE
    /\ ret' = "none"
    /\ answer' = FALSE
    /\ line' = <<>>
    /\ retries' = 0
    /\ UNCHANGED <<fs, nedits>>

EditTexts == {<<"K5">>, <<"e", "d">>}

\* somebody rewrites a manifest before the command runs
Edit(p, text) ==
    /\ pc = "start"
    /\ nedits < MaxEdits
    /\ IsFile(fs, p)
    /\ EndsWith(LastComponent(p), DotToml)
    /\ fs[p].data # text
    /\ nedits' = nedits + 1
    /\ fs' = Put(fs, p, FileNode(text))
    /\ pre' = fs'
    /\ UNCHANGED <<pc, cmd, result, trace, installVars, promptVars, home, prev, ncmds>>

----------------------------------------------------------------------------

Tags == {<<"p">>, <<"q">>, <<"p", ".", "q">>, <<"p", "/", "q">>}

Next ==
    \/ \E t \in Tags : New(t)
    \/ \E t \in Tags : RemoveBegin(t)
    \/ RemoveEnd
    \/ \E typed \in Typed, eof \in BOOLEAN : UserBoolean(typed, eof)
    \/ \E t \in Tags : InstallBegin(t)
    \/ InstallLoop
    \/ InstallConfig
    \/ InstallPair
    \/ \E h \in Homes : Spawn(h)
    \/ \E p \in DOMAIN fs, text \in EditTexts : Edit(p, text)

Spec == Init /\ [][Next]_vars

\* one run of install over a package directory
NextInstall ==
    \/ \E t \in Tags : InstallBegin(t)
    \/ \E typed \in Typed, eof \in BOOLEAN : UserBoolean(typed, eof)
    \/ InstallLoop
    \/ InstallConfig
    \/ InstallPair

SpecInstall == InitInstall /\ [][NextInstall]_vars

----------------------------------------------------------------------------
(* Reading the trace *)

Last == trace[Len(trace)]

\* install_config has just returned
Returned == trace # <<>> /\ Last.op = "return"

\* where the running call of install_config began, 0 if there is none
LastCall ==
    IF \E i \in 1..Len(trace) : trace[i].op = "call"
    THEN CHOOSE i \in 1..Len(trace) :
             trace[i].op = "call" /\ \A j \in (i + 1)..Len(trace) : trace[j].op # "call"
    ELSE 0

\* the events of the running call of install_config
CallEvents == SubSeq(trace, LastCall + 1, Len(trace))

Printed(tr, what) == SelectSeq(tr, LAMBDA e : e.op = "println" /\ e.what = what)

OfOp(tr, ops) == SelectSeq(tr, LAMBDA e : e.op \in ops)

AllSpace(s) == \A i \in 1..Len(s) : s[i] \in {" ", "\n"}

\* s is c between whitespace
IsJust(s, cs) ==
    \E i \in 1..Len(s) : s[i] \in cs /\ \A j \in 1..Len(s) : j # i => s[j] \in {" ", "\n"}

----------------------------------------------------------------------------
(* C1 *)

\* the pair whose COPY line is trace[k] is the pair copied last
JustCopied(k) ==
    /\ k \in 3..Len(trace)
    /\ trace[k].op = "println"
    /\ trace[k].what = "COPY"
    /\ \/ k = Len(trace)
       \/ k = Len(trace) - 1 /\ Last.op = "return"

\* C1: in normal mode, once a pair is copied the target file holds exactly
\* what was read from the source file, whatever the target held before
\* (nothing, or contents of any length): no byte of the old target survives.
C1_TargetEqualsSource ==
    \A k \in 1..Len(trace) :
        JustCopied(k) =>
            fs[Resolve(trace[k].arg.target)].data = trace[k - 2].arg.text

----------------------------------------------------------------------------
(* C7 *)

\* C7: install_config fails with HomeUnset only if HOME is unset and some
\* target contains '~'; with HOME unset and no '~' in any target an otherwise
\* valid manifest does not fail for HOME.
C7_HomeUnsetOnlyWithTilde ==
    (Returned /\ Last.arg.kind = "HomeUnset") =>
        /\ home = None
        /\ \E i \in 1..Len(config.config.target) :
               Contains(config.config.target[i], "~")

----------------------------------------------------------------------------
(* C8 *)

\* C8: user_boolean returns only on an accepted line: a line that is y or Y
\* between whitespace returns true, n or N returns false, a line of
\* whitespace only returns the bias, whatever was read before; any other
\* line prints the hint and prompts again without returning.
C8_PromptReturnsOnAcceptedLine ==
    [][pc = "user_boolean" =>
          /\ IsJust(line', {"y", "Y"}) => (pc' = ret /\ answer' = TRUE)
          /\ IsJust(line', {"n", "N"}) => (pc' = ret /\ answer' = FALSE)
          /\ AllSpace(line') => (pc' = ret /\ answer' = bias)
          /\ pc' # "user_boolean" =>
                 (IsJust(line', {"y", "Y", "n", "N"}) \/ AllSpace(line'))
          /\ pc' = "user_boolean" =>
                 /\ retries' = retries + 1
                 /\ answer' = answer
                 /\ Len(Printed(trace', "Hint")) = Len(Printed(trace, "Hint")) + 1
          /\ pc' # "user_boolean" =>
                 Len(Printed(trace', "Hint")) = Len(Printed(trace, "Hint"))
    ]_vars

\* a prompt with bias no that returned true on "Y" after a rejected line
C8_Witness ==
    /\ pc = "remove"
    /\ bias = FALSE
    /\ retries >= 1
    /\ line = <<"Y", "\n">>
    /\ answer = TRUE
    /\ Len(Printed(trace, "Hint")) = retries

----------------------------------------------------------------------------
(* C2 *)

RemovePath == Resolve(<<".", "/">> \o cmd.tag)

\* C2: remove deletes the package directory only after the prompt, with
\* bias no, has returned true on a line that is y or Y; on n, N or an empty
\* line it reports canceled, returns success and leaves the directory and
\* all the filesystem as they were; on a directory that does not exist it
\* fails with NotFound without a prompt and without touching the filesystem.
C2_RemoveOnlyWhenConfirmed ==
    cmd.name = "remove" =>
        /\ fs # pre =>
               /\ pc = "exited"
               /\ ret = "remove"
               /\ IsJust(line, {"y", "Y"})
               /\ Printed(trace, "Deleting") # <<>>
        /\ (pc = "exited" /\ ret = "remove"
              /\ (IsJust(line, {"n", "N"}) \/ AllSpace(line))) =>
               /\ result.ok
               /\ fs = pre
               /\ Last.op = "println" /\ Last.what = "Canceled"
        /\ (pc = "exited" /\ ~Exists(pre, RemovePath)) =>
               /\ result.kind = "NotFound"
               /\ fs = pre
               /\ OfOp(trace, {"print", "read_line"}) = <<>>

\* remove of an existing package that was declined by pressing Enter
C2_Witness ==
    /\ cmd.name = "remove"
    /\ pc = "exited"
    /\ ret = "remove"
    /\ line = <<"\n">>
    /\ IsDir(pre, RemovePath)
    /\ Children(pre, RemovePath) # {}
    /\ result.ok
    /\ fs = pre
----------------------------------------------------------------------------
(* C3 *)

ManifestPath == Resolve(ManifestName(cmd.tag))
TagPath == Resolve(<<".", "/">> \o cmd.tag)

Created == DOMAIN fs \ DOMAIN pre
KeptAsItWas == \A q \in DOMAIN pre : q \in DOMAIN fs /\ fs[q] = pre[q]

\* new(t) made directory ./t and manifest ./t/t.toml with the template, and
\* nothing else
MadeOnePackage ==
    /\ result.ok
    /\ {q \in Created : fs[q].type = "dir"} = {TagPath}
    /\ {q \in Created : fs[q].type = "file"} = {ManifestPath}
    /\ ManifestPath = Append(TagPath, cmd.tag \o DotToml)
    /\ fs[ManifestPath].data = DEFAULT_CONFIG_CONTENTS
    /\ KeptAsItWas

\* new(t) failed with AlreadyExists and changed nothing
RefusedToOverwrite ==
    /\ result.kind = "AlreadyExists"
    /\ fs = pre

\* C3 as claimed: for every tag t without a '.', new(t) where ./t does not
\* exist creates exactly the directory ./t and the manifest ./t/t.toml with
\* the default template, and new(t) while that manifest exists fails with
\* AlreadyExists and leaves the manifest as it is.
C3_Original ==
    (cmd.name = "new" /\ pc = "exited" /\ ~Contains(cmd.tag, ".")) =>
        /\ ~Exists(pre, TagPath) => MadeOnePackage
        /\ IsFile(pre, ManifestPath) => RefusedToOverwrite

\* C3 as amended: the same for every tag t without a '.' and without a '/'.
C3_NewIsExclusive ==
    (cmd.name = "new" /\ pc = "exited"
       /\ ~Contains(cmd.tag, ".") /\ ~Contains(cmd.tag, "/")) =>
        /\ ~Exists(pre, TagPath) => MadeOnePackage
        /\ IsFile(pre, ManifestPath) => RefusedToOverwrite

\* a second new(t), after a first one that succeeded and an edit of the
\* manifest, that failed and left the edited manifest
C3_Witness ==
    /\ cmd.name = "new"
    /\ pc = "exited"
    /\ ~Contains(cmd.tag, ".") /\ ~Contains(cmd.tag, "/")
    /\ prev = [name |-> "new", tag |-> cmd.tag, ok |-> TRUE]
    /\ nedits = 1
    /\ IsFile(pre, ManifestPath)
    /\ pre[ManifestPath].data # DEFAULT_CONFIG_CONTENTS
    /\ RefusedToOverwrite

----------------------------------------------------------------------------
(* C4 *)

\* the position of a manifest file in doots
DootIndex(file) == CHOOSE k \in 1..Len(doots) : doots[k] = file

\* C4: a manifest that fails to parse is skipped with a warning that names
\* it, and install goes on: the next manifest found is opened next, and
\* install returns success if that manifest was the last; every manifest
\* that parses is passed to install_config.
C4_InvalidManifestIsSkipped ==
    \A i \in 1..Len(trace) :
        /\ (trace[i].op = "from_str" /\ trace[i].what = "err") =>
              LET k == DootIndex(trace[i].arg) IN
              /\ i < Len(trace)
              /\ trace[i + 1].op = "println"
              /\ trace[i + 1].what = "NotValid"
              /\ trace[i + 1].arg = trace[i].arg
              /\ i + 1 = Len(trace) =>
                     \/ pc = "install" /\ idx = k + 1
                     \/ pc = "exited" /\ k = Len(doots) /\ result.ok
              /\ i + 1 < Len(trace) =>
                     /\ k < Len(doots)
                     /\ trace[i + 2].op = "open_read"
                     /\ trace[i + 2].arg = doots[k + 1]
        /\ (trace[i].op = "from_str" /\ trace[i].what = "ok") =>
              /\ i < Len(trace)
              /\ trace[i + 1].op = "call"
              /\ trace[i + 1].arg = trace[i].arg

\* install that skipped an invalid first manifest, copied the files of the
\* second and returned success
C4_Witness ==
    /\ cmd.name = "install"
    /\ pc = "exited"
    /\ result.ok
    /\ Len(doots) = 2
    /\ \E i \in 1..Len(trace) :
           /\ trace[i].op = "from_str" /\ trace[i].what = "err"
           /\ trace[i].arg = doots[1]
    /\ Printed(trace, "COPY") # <<>>
    /\ Returned /\ Last.arg.ok

----------------------------------------------------------------------------
(* C5 *)

FileOps == {"canonicalize", "open_read", "open_write", "read_to_string", "write_all"}

\* C5: when install_config, not declined at the prompt, returns for a
\* manifest whose source and target lists differ in length, it returns
\* RuleCountMismatch with both lengths; for a manifest with both lists empty
\* it returns EmptyRuleSet; either way it has opened, read and written no
\* source or target file.
C5_RulesValidatedBeforeAnyFile ==
    (Returned /\ answer) =>
        LET ns == Len(config.config.source)
            nt == Len(config.config.target)
        IN  /\ ns # nt =>
                   /\ Last.arg.kind = "RuleCountMismatch"
                   /\ Last.arg.sources = ns
                   /\ Last.arg.targets = nt
                   /\ ~Last.arg.ok
                   /\ OfOp(CallEvents, FileOps) = <<>>
            /\ (ns = 0 /\ nt = 0) =>
                   /\ Last.arg.kind = "EmptyRuleSet"
                   /\ ~Last.arg.ok
                   /\ OfOp(CallEvents, FileOps) = <<>>

\* install_config that was confirmed at the prompt and failed on one source
\* for two targets
C5_Witness ==
    /\ Returned
    /\ answer
    /\ OfOp(CallEvents, {"read_line"}) # <<>>
    /\ Len(config.config.source) = 1
    /\ Len(config.config.target) = 2
    /\ Last.arg = [ok |-> FALSE, kind |-> "RuleCountMismatch", sources |-> 1, targets |-> 2]
    /\ pc = "exited"
----------------------------------------------------------------------------
(* What the loop over the pairs is expected to open and print.  The sources *)
(* and targets of the manifests are plain names, or names under "~/".       *)

PackageDir == CurrentDir \o <<"/">> \o cmd.tag

ExpectedSource(k) == PackageDir \o <<"/">> \o config.config.source[k]

ExpectedTarget(k) ==
    LET t == config.config.target[k] IN
    IF t[1] = "~" THEN home[1] \o Tail(t) ELSE PackageDir \o <<"/">> \o t

ExpectedLine(k) == [source |-> ExpectedSource(k), target |-> ExpectedTarget(k)]

DebugSet == config.config.debug = Some(TRUE)

\* install_config is in, or has just left, the loop over the pairs
InLoop == pc = "pairs" \/ (Returned /\ pair >= 1)

DebugLines == Printed(CallEvents, "DEBUG")

----------------------------------------------------------------------------
(* C6 *)

\* C6 as claimed, read for the calls that reach the loop over the pairs:
\* with debug set, install_config writes nothing and, when it returns, has
\* printed exactly one DEBUG line per declared pair, in the order declared.
C6_Original ==
    (Returned /\ pair >= 1 /\ DebugSet) =>
        /\ OfOp(CallEvents, {"open_write", "write_all"}) = <<>>
        /\ Len(DebugLines) = Len(config.config.source)
        /\ \A k \in 1..Len(DebugLines) : DebugLines[k].arg = ExpectedLine(k)

\* C6 as amended: with debug set, install_config never creates, opens for
\* writing or changes a file; the DEBUG lines it prints are those of the
\* first pairs, in the order declared; when it returns success without
\* having been declined there is exactly one per declared pair, and when the
\* source of pair i does not exist it fails after the lines of the pairs
\* before i.
C6_DebugWritesNothing ==
    /\ [](DebugSet =>
            /\ OfOp(CallEvents, {"open_write", "write_all"}) = <<>>
            /\ Printed(CallEvents, "COPY") = <<>>
            /\ InLoop =>
                 /\ Len(DebugLines) <= Len(config.config.source)
                 /\ \A k \in 1..Len(DebugLines) : DebugLines[k].arg = ExpectedLine(k)
            /\ (Returned /\ Last.arg.ok /\ answer) =>
                 Len(DebugLines) = Len(config.config.source)
            /\ (Returned /\ Last.arg.kind = "SourceNotFound") =>
                 Len(DebugLines) = pair - 1)
    /\ [][(DebugSet /\ pc \in {"install_config", "pairs"}) => fs' = fs]_vars

\* a manifest with debug set, two pairs and a target under "~", installed
\* with success
C6_Witness ==
    /\ Returned
    /\ DebugSet
    /\ Last.arg.ok
    /\ answer
    /\ Len(config.config.source) = 2
    /\ Len(DebugLines) = 2
    /\ \E k \in 1..2 : Contains(config.config.target[k], "~")
    /\ fs = pre

----------------------------------------------------------------------------
(* C9 *)

NormalMode == config.config.debug # Some(TRUE)

SourcePath(k) == Resolve(ExpectedSource(k))
TargetPath(k) == Resolve(ExpectedTarget(k))

\* pair k cannot be processed in filesystem f
PairFails(f, k) ==
    \/ ~Exists(f, SourcePath(k))
    \/ /\ NormalMode
       /\ \/ ~IsUtf8(f[SourcePath(k)].data)
          \/ ~Exists(f, ParentPath(TargetPath(k)))

IsPrefixOf(a, b) == Len(a) <= Len(b) /\ SubSeq(b, 1, Len(a)) = a

\* C9: install_config takes the pairs in list order; when pair i fails (its
\* source does not exist or cannot be read, or its target cannot be opened)
\* install_config returns the error, no later pair has been canonicalized,
\* opened or written, and what the pairs before i copied is still in their
\* targets: the failing step changes nothing that existed.
C9_PairsInOrderNoRollback ==
    /\ [](InLoop =>
            LET can == OfOp(CallEvents, {"canonicalize"})
                opn == OfOp(CallEvents, {"open_write"})
                rds == SelectSeq(CallEvents,
                          LAMBDA e : e.op = "read_to_string" /\ e.what = "ok")
            IN  /\ Len(can) <= pair
                /\ Len(can) >= pair - 1
                /\ Len(opn) <= Len(can)
                /\ \A k \in 1..Len(can) :
                       can[k].arg = IF can[k].what = "ok" THEN ExpectedSource(k)
                                    ELSE config.config.source[k]
                /\ \A k \in 1..Len(opn) : opn[k].arg = ExpectedTarget(k)
                /\ \A k \in 1..Len(rds) :
                       /\ rds[k].arg.path = ExpectedSource(k)
                       /\ IsPrefixOf(rds[k].arg.text, fs[TargetPath(k)].data)
                /\ (Returned /\ ~Last.arg.ok) =>
                       /\ pc = "exited"
                       /\ result = Last.arg
                       /\ Len(can) = pair
                       /\ Len(rds) = IF NormalMode THEN pair - 1 ELSE 0)
    /\ [][pc = "pairs" =>
            /\ PairFails(fs, pair) =>
                   /\ pc' = "exited"
                   /\ ~result'.ok
                   /\ \A q \in DOMAIN fs : q \in DOMAIN fs' /\ fs'[q] = fs[q]
            /\ pc' = "pairs" => pair' = pair + 1
         ]_vars

\* the second of two pairs failed for its missing source, and the target of
\* the first holds what was copied
C9_Witness ==
    /\ pc = "exited"
    /\ Returned
    /\ Last.arg.kind = "SourceNotFound"
    /\ NormalMode
    /\ pair = 2
    /\ Len(Printed(CallEvents, "COPY")) = 1
    /\ IsPrefixOf(<<"x">>, fs[TargetPath(1)].data)
    /\ ~Exists(pre, TargetPath(1))
    /\ ~Exists(fs, TargetPath(2))

----------------------------------------------------------------------------
(* C10 *)

\* C10: when install_config returns an error, install returns that error at
\* once: no manifest found after that one is opened or parsed, and the
\* step that fails changes no file that existed; when install_config
\* returns after the user declined, install goes on with the next manifest.
C10_ErrorEndsInstall ==
    /\ [](\A i \in 1..Len(trace) :
            /\ (trace[i].op = "return" /\ ~trace[i].arg.ok) =>
                  /\ i = Len(trace)
                  /\ pc = "exited"
                  /\ result = trace[i].arg
                  /\ Len(OfOp(trace, {"from_str"})) = idx
                  /\ \A j \in 1..Len(trace) :
                        trace[j].op = "from_str" => DootIndex(trace[j].arg) <= idx
            /\ (trace[i].op = "println" /\ trace[i].what = "Skipped") =>
                  /\ i < Len(trace)
                  /\ trace[i + 1].op = "return"
                  /\ trace[i + 1].arg.ok
                  /\ i + 1 = Len(trace) =>
                         \/ pc = "install"
                         \/ pc = "exited" /\ result.ok /\ idx > Len(doots)
                  /\ i + 1 < Len(trace) =>
                         /\ trace[i + 2].op = "open_read"
                         /\ \E k \in 2..Len(doots) : trace[i + 2].arg = doots[k])
    /\ [][(pc \in {"install_config", "pairs"} /\ pc' = "exited") =>
            /\ ~result'.ok
            /\ \A q \in DOMAIN fs : q \in DOMAIN fs' /\ fs'[q] = fs[q]
         ]_vars

\* the first of two manifests failed in install_config, and the second was
\* never opened
C10_Witness ==
    /\ cmd.name = "install"
    /\ pc = "exited"
    /\ ~result.ok
    /\ Returned
    /\ Last.arg = result
    /\ Len(doots) = 2
    /\ idx = 1
    /\ Len(OfOp(trace, {"from_str"})) = 1
    /\ OfOp(trace, {"open_read"})[1].arg = doots[1]
====
